---- MODULE Spec2Model ----
\* Robin Hood open-addressing hash table (src/hash_map.h), driven by the
\* operations the exerciser and the harness of src/tester.cpp call.
EXTENDS Integers, Sequences, FiniteSets, TLC

VARIABLES
    map,     \* the table under test: the HashMap object's fields
    second,  \* a second table, the target/source of copies (check_copy)
    ref,     \* reference key->value map driven by the same operations
    last     \* the operation just performed and its arguments

vars == <<map, second, ref, last>>

----------------------------------------------------------------------------
\* Bounds and inputs

\* most tombstones a table may hold before erase is no longer explored
MaxDead == 1
\* longest list of pairs the table is constructed from (besides Filler)
MaxList == 2
\* length of the long list a table is constructed from, enough for three more
\* insertions to reach the growth threshold of a 16-slot array
FillLen == 6

default_size_ == 16

\* keys the operations are called with: 15 and 31 collide in the last slot of
\* a 16-slot array and wrap around to slot 0, where they meet key 0
Keys == {0, 15, 31}
Vals == {0, 1}
\* ValueType() for int
DefaultVal == 0

\* the hash functors of the harness: "std_hash" is std::hash<int> (the
\* identity, as hash<StrangeInt> is), "stupid_hash" returns 0 for every key
hasher(h, k) == IF h = "stupid_hash" THEN 0 ELSE k

Absent == -1

----------------------------------------------------------------------------
\* Node

EmptyNode == [keyvalue |-> <<0, 0>>, status |-> -1, dist_to_ideal |-> 0]

Node(p, dist) == [keyvalue |-> p, status |-> 1, dist_to_ideal |-> dist]

\* HashMap(Hash hasher_)
HashMap(h) ==
    [hasher_      |-> h,
     buffer_size_ |-> default_size_,
     cnt_all_     |-> 0,
     cnt_dead_    |-> 0,
     data_        |-> [i \in 0..(default_size_ - 1) |-> EmptyNode]]

size(hm) == hm.cnt_all_ - hm.cnt_dead_

empty(hm) == hm.cnt_all_ - hm.cnt_dead_ = 0

\* end(): iterator(this, data_.size())
end(hm) == Cardinality(DOMAIN hm.data_)

get_hash(hm, k) == hasher(hm.hasher_, k) % hm.buffer_size_

----------------------------------------------------------------------------
\* insert / resize

RECURSIVE insert(_, _), resize(_), insert_loop(_, _, _, _, _, _, _), resize_loop(_, _, _)

\* Faulty variants of insert's loop, used to show that the properties below
\* depend on it.
RECURSIVE insert_loop_nodup(_, _, _, _, _, _, _), insert_loop_overwrite(_, _, _, _, _, _, _),
          insert_loop_lastslot(_, _, _, _, _, _, _), insert_loop_keepdist(_, _, _, _, _, _, _),
          insert_loop_noswap(_, _, _, _, _, _, _), insert_loop_reuse(_, _, _, _, _, _, _)

\* without the test for a slot that already holds the key
insert_loop_nodup(hm, key, h1, i, keyvalue, cur_dist_to_ideal, insert_index) ==
    IF ~(i < hm.buffer_size_)
    THEN [hm |-> hm, it |-> hm.buffer_size_]
    ELSE
      LET index == (h1 + i) % hm.buffer_size_
          n     == hm.data_[index]
          swap  == n.status = 1 /\ n.dist_to_ideal < cur_dist_to_ideal
          hm1   == IF swap
                   THEN [hm EXCEPT !.data_[index] =
                           [n EXCEPT !.keyvalue = keyvalue,
                                     !.dist_to_ideal = cur_dist_to_ideal]]
                   ELSE hm
          kv1   == IF swap THEN n.keyvalue ELSE keyvalue
          cur1  == IF swap THEN n.dist_to_ideal ELSE cur_dist_to_ideal
          ii1   == IF swap /\ insert_index = -1 THEN index ELSE insert_index
      IN
      IF hm1.data_[index].status = -1
      THEN [hm |-> [hm1 EXCEPT !.data_[index] = Node(kv1, cur1),
                               !.cnt_all_ = @ + 1],
            it |-> IF ii1 = -1 THEN index ELSE ii1]
      ELSE insert_loop_nodup(hm1, key, h1, i + 1, kv1, cur1 + 1, ii1)

\* a slot that already holds the key takes the new value
insert_loop_overwrite(hm, key, h1, i, keyvalue, cur_dist_to_ideal, insert_index) ==
    IF ~(i < hm.buffer_size_)
    THEN [hm |-> hm, it |-> hm.buffer_size_]
    ELSE
      LET index == (h1 + i) % hm.buffer_size_
          n     == hm.data_[index]
      IN
      IF n.status = 1 /\ n.keyvalue[1] = key
      THEN [hm |-> [hm EXCEPT !.data_[index].keyvalue = keyvalue], it |-> index]
      ELSE
        LET swap == n.status = 1 /\ n.dist_to_ideal < cur_dist_to_ideal
            hm1  == IF swap
                    THEN [hm EXCEPT !.data_[index] =
                            [n EXCEPT !.keyvalue = keyvalue,
                                      !.dist_to_ideal = cur_dist_to_ideal]]
                    ELSE hm
            kv1  == IF swap THEN n.keyvalue ELSE keyvalue
            cur1 == IF swap THEN n.dist_to_ideal ELSE cur_dist_to_ideal
            ii1  == IF swap /\ insert_index = -1 THEN index ELSE insert_index
        IN
        IF hm1.data_[index].status = -1
        THEN [hm |-> [hm1 EXCEPT !.data_[index] = Node(kv1, cur1),
                                 !.cnt_all_ = @ + 1],
              it |-> IF ii1 = -1 THEN index ELSE ii1]
        ELSE insert_loop_overwrite(hm1, key, h1, i + 1, kv1, cur1 + 1, ii1)

\* returns the slot that was filled last, not the first slot swapped into
insert_loop_lastslot(hm, key, h1, i, keyvalue, cur_dist_to_ideal, insert_index) ==
    IF ~(i < hm.buffer_size_)
    THEN [hm |-> hm, it |-> hm.buffer_size_]
    ELSE
      LET index == (h1 + i) % hm.buffer_size_
          n     == hm.data_[index]
      IN
      IF n.status = 1 /\ n.keyvalue[1] = key
      THEN [hm |-> hm, it |-> index]
      ELSE
        LET swap == n.status = 1 /\ n.dist_to_ideal < cur_dist_to_ideal
            hm1  == IF swap
                    THEN [hm EXCEPT !.data_[index] =
                            [n EXCEPT !.keyvalue = keyvalue,
                                      !.dist_to_ideal = cur_dist_to_ideal]]
                    ELSE hm
            kv1  == IF swap THEN n.keyvalue ELSE keyvalue
            cur1 == IF swap THEN n.dist_to_ideal ELSE cur_dist_to_ideal
        IN
        IF hm1.data_[index].status = -1
        THEN [hm |-> [hm1 EXCEPT !.data_[index] = Node(kv1, cur1),
                                 !.cnt_all_ = @ + 1],
              it |-> index]
        ELSE insert_loop_lastslot(hm1, key, h1, i + 1, kv1, cur1 + 1, insert_index)

\* a swap exchanges the pairs but leaves the distances where they were
insert_loop_keepdist(hm, key, h1, i, keyvalue, cur_dist_to_ideal, insert_index) ==
    IF ~(i < hm.buffer_size_)
    THEN [hm |-> hm, it |-> hm.buffer_size_]
    ELSE
      LET index == (h1 + i) % hm.buffer_size_
          n     == hm.data_[index]
      IN
      IF n.status = 1 /\ n.keyvalue[1] = key
      THEN [hm |-> hm, it |-> index]
      ELSE
        LET swap == n.status = 1 /\ n.dist_to_ideal < cur_dist_to_ideal
            hm1  == IF swap
                    THEN [hm EXCEPT !.data_[index] =
                            [n EXCEPT !.keyvalue = keyvalue]]
                    ELSE hm
            kv1  == IF swap THEN n.keyvalue ELSE keyvalue
            cur1 == cur_dist_to_ideal
            ii1  == IF swap /\ insert_index = -1 THEN index ELSE insert_index
        IN
        IF hm1.data_[index].status = -1
        THEN [hm |-> [hm1 EXCEPT !.data_[index] = Node(kv1, cur1),
                                 !.cnt_all_ = @ + 1],
              it |-> IF ii1 = -1 THEN index ELSE ii1]
        ELSE insert_loop_keepdist(hm1, key, h1, i + 1, kv1, cur1 + 1, ii1)

\* plain linear probing: a richer pair is never displaced
insert_loop_noswap(hm, key, h1, i, keyvalue, cur_dist_to_ideal, insert_index) ==
    IF ~(i < hm.buffer_size_)
    THEN [hm |-> hm, it |-> hm.buffer_size_]
    ELSE
      LET index == (h1 + i) % hm.buffer_size_
          n     == hm.data_[index]
      IN
      IF n.status = 1 /\ n.keyvalue[1] = key
      THEN [hm |-> hm, it |-> index]
      ELSE
        LET swap == FALSE
            hm1  == IF swap
                    THEN [hm EXCEPT !.data_[index] =
                            [n EXCEPT !.keyvalue = keyvalue,
                                      !.dist_to_ideal = cur_dist_to_ideal]]
                    ELSE hm
            kv1  == IF swap THEN n.keyvalue ELSE keyvalue
            cur1 == IF swap THEN n.dist_to_ideal ELSE cur_dist_to_ideal
            ii1  == IF swap /\ insert_index = -1 THEN index ELSE insert_index
        IN
        IF hm1.data_[index].status = -1
        THEN [hm |-> [hm1 EXCEPT !.data_[index] = Node(kv1, cur1),
                                 !.cnt_all_ = @ + 1],
              it |-> IF ii1 = -1 THEN index ELSE ii1]
        ELSE insert_loop_noswap(hm1, key, h1, i + 1, kv1, cur1 + 1, ii1)

\* a tombstone is taken as an insertion target
insert_loop_reuse(hm, key, h1, i, keyvalue, cur_dist_to_ideal, insert_index) ==
    IF ~(i < hm.buffer_size_)
    THEN [hm |-> hm, it |-> hm.buffer_size_]
    ELSE
      LET index == (h1 + i) % hm.buffer_size_
          n     == hm.data_[index]
      IN
      IF n.status = 1 /\ n.keyvalue[1] = key
      THEN [hm |-> hm, it |-> index]
      ELSE
        LET swap == n.status = 1 /\ n.dist_to_ideal < cur_dist_to_ideal
            hm1  == IF swap
                    THEN [hm EXCEPT !.data_[index] =
                            [n EXCEPT !.keyvalue = keyvalue,
                                      !.dist_to_ideal = cur_dist_to_ideal]]
                    ELSE hm
            kv1  == IF swap THEN n.keyvalue ELSE keyvalue
            cur1 == IF swap THEN n.dist_to_ideal ELSE cur_dist_to_ideal
            ii1  == IF swap /\ insert_index = -1 THEN index ELSE insert_index
        IN
        IF hm1.data_[index].status # 1
        THEN [hm |-> [hm1 EXCEPT !.data_[index] = Node(kv1, cur1),
                                 !.cnt_all_ = IF n.status = -1 THEN @ + 1 ELSE @,
                                 !.cnt_dead_ = IF n.status = 0 THEN @ - 1 ELSE @],
              it |-> IF ii1 = -1 THEN index ELSE ii1]
        ELSE insert_loop_reuse(hm1, key, h1, i + 1, kv1, cur1 + 1, ii1)

\* the body of insert's for loop at iteration i, carrying keyvalue with
\* distance cur_dist_to_ideal; yields the table and the returned iterator
insert_loop(hm, key, h1, i, keyvalue, cur_dist_to_ideal, insert_index) ==
    IF ~(i < hm.buffer_size_)
    THEN [hm |-> hm, it |-> hm.buffer_size_]
    ELSE
      LET index == (h1 + i) % hm.buffer_size_
          n     == hm.data_[index]
      IN
      IF n.status = 1 /\ n.keyvalue[1] = key
      THEN [hm |-> hm, it |-> index]
      ELSE
        LET swap == n.status = 1 /\ n.dist_to_ideal < cur_dist_to_ideal
            hm1  == IF swap
                    THEN [hm EXCEPT !.data_[index] =
                            [n EXCEPT !.keyvalue = keyvalue,
                                      !.dist_to_ideal = cur_dist_to_ideal]]
                    ELSE hm
            kv1  == IF swap THEN n.keyvalue ELSE keyvalue
            cur1 == IF swap THEN n.dist_to_ideal ELSE cur_dist_to_ideal
            ii1  == IF swap /\ insert_index = -1 THEN index ELSE insert_index
        IN
        IF hm1.data_[index].status = -1
        THEN [hm |-> [hm1 EXCEPT !.data_[index] = Node(kv1, cur1),
                                 !.cnt_all_ = @ + 1],
              it |-> IF ii1 = -1 THEN index ELSE ii1]
        ELSE insert_loop(hm1, key, h1, i + 1, kv1, cur1 + 1, ii1)

\* Faulty variant of insert: a key that is already stored is detected before
\* the growth step, so a duplicate never grows the table
insert_dupfirst(hm, keyvalue) ==
    LET held == {j \in DOMAIN hm.data_ :
                   hm.data_[j].status = 1 /\ hm.data_[j].keyvalue[1] = keyvalue[1]}
        hm1  == resize(hm)
    IN IF held # {}
       THEN [hm |-> hm, it |-> CHOOSE j \in held : TRUE]
       ELSE insert_loop(hm1, keyvalue[1], get_hash(hm1, keyvalue[1]), 0, keyvalue, 0, -1)

\* resize() first (line 183), then the probe loop
insert(hm, keyvalue) ==
    LET hm1 == resize(hm)
        key == keyvalue[1]
        h1  == get_hash(hm1, key)
    IN insert_loop(hm1, key, h1, 0, keyvalue, 0, -1)

\* resize's for loop over the old array data_2 from index i on
resize_loop(hm, data_2, i) ==
    IF ~(i < Cardinality(DOMAIN data_2))
    THEN hm
    ELSE IF data_2[i].status = 1
         THEN resize_loop(insert(hm, data_2[i].keyvalue).hm, data_2, i + 1)
         ELSE resize_loop(hm, data_2, i + 1)

\* Faulty variant of resize: cnt_all_ is not reset before the pairs are
\* inserted again
resize_keepcount(hm) ==
    IF hm.buffer_size_ < hm.cnt_all_ * 2
    THEN LET bs == hm.buffer_size_ * 2
         IN resize_loop([hm EXCEPT !.buffer_size_ = bs,
                                   !.cnt_dead_ = 0,
                                   !.data_ = [i \in 0..(bs - 1) |-> EmptyNode]],
                        hm.data_, 0)
    ELSE hm

\* Faulty variant of resize: the table also grows when cnt_all_ is exactly
\* half the capacity
resize_eager(hm) ==
    IF hm.buffer_size_ <= hm.cnt_all_ * 2
    THEN LET bs == hm.buffer_size_ * 2
         IN resize_loop([hm EXCEPT !.buffer_size_ = bs,
                                   !.cnt_dead_ = 0,
                                   !.cnt_all_ = 0,
                                   !.data_ = [i \in 0..(bs - 1) |-> EmptyNode]],
                        hm.data_, 0)
    ELSE hm

\* buffer_size_ * load_factor_ < cnt_all_ with load_factor_ = 0.5,
\* both sides scaled by 2
resize(hm) ==
    IF hm.buffer_size_ < hm.cnt_all_ * 2
    THEN LET bs == hm.buffer_size_ * 2
         IN resize_loop([hm EXCEPT !.buffer_size_ = bs,
                                   !.cnt_dead_ = 0,
                                   !.cnt_all_ = 0,
                                   !.data_ = [i \in 0..(bs - 1) |-> EmptyNode]],
                        hm.data_, 0)
    ELSE hm

----------------------------------------------------------------------------
\* erase / find / operator[] / at / clear

RECURSIVE erase_loop(_, _, _, _), find_loop(_, _, _, _)

\* Faulty variants of erase's loop
RECURSIVE erase_loop_reclaim(_, _, _, _), erase_loop_nocount(_, _, _, _),
          erase_loop_release(_, _, _, _)

\* the slot of the erased key becomes empty, not a tombstone
erase_loop_reclaim(hm, key, h1, i) ==
    IF ~(i < hm.buffer_size_)
    THEN hm
    ELSE
      LET index == (h1 + i) % hm.buffer_size_
          hit   == hm.data_[index].status = 1 /\ hm.data_[index].keyvalue[1] = key
          hm1   == IF hit
                   THEN [hm EXCEPT !.data_[index].status = -1,
                                   !.cnt_dead_ = @ + 1]
                   ELSE hm
      IN IF hm1.data_[index].status = -1
         THEN hm1
         ELSE erase_loop_reclaim(hm1, key, h1, i + 1)

\* cnt_dead_ is not incremented
erase_loop_nocount(hm, key, h1, i) ==
    IF ~(i < hm.buffer_size_)
    THEN hm
    ELSE
      LET index == (h1 + i) % hm.buffer_size_
          hit   == hm.data_[index].status = 1 /\ hm.data_[index].keyvalue[1] = key
          hm1   == IF hit
                   THEN [hm EXCEPT !.data_[index].status = 0]
                   ELSE hm
      IN IF hm1.data_[index].status = -1
         THEN hm1
         ELSE erase_loop_nocount(hm1, key, h1, i + 1)

\* erasing a key also takes it out of cnt_all_, the count that drives growth
erase_loop_release(hm, key, h1, i) ==
    IF ~(i < hm.buffer_size_)
    THEN hm
    ELSE
      LET index == (h1 + i) % hm.buffer_size_
          hit   == hm.data_[index].status = 1 /\ hm.data_[index].keyvalue[1] = key
          hm1   == IF hit
                   THEN [hm EXCEPT !.data_[index].status = 0,
                                   !.cnt_dead_ = @ + 1,
                                   !.cnt_all_ = @ - 1]
                   ELSE hm
      IN IF hm1.data_[index].status = -1
         THEN hm1
         ELSE erase_loop_release(hm1, key, h1, i + 1)

erase_loop(hm, key, h1, i) ==
    IF ~(i < hm.buffer_size_)
    THEN hm
    ELSE
      LET index == (h1 + i) % hm.buffer_size_
          hit   == hm.data_[index].status = 1 /\ hm.data_[index].keyvalue[1] = key
          hm1   == IF hit
                   THEN [hm EXCEPT !.data_[index].status = 0,
                                   !.cnt_dead_ = @ + 1]
                   ELSE hm
      IN IF hm1.data_[index].status = -1
         THEN hm1
         ELSE erase_loop(hm1, key, h1, i + 1)

erase(hm, key) == erase_loop(hm, key, get_hash(hm, key), 0)

find_loop(hm, key, h1, i) ==
    IF ~(i < hm.buffer_size_)
    THEN hm.buffer_size_
    ELSE
      LET index == (h1 + i) % hm.buffer_size_
      IN IF hm.data_[index].status = 1 /\ hm.data_[index].keyvalue[1] = key
         THEN index
         ELSE IF hm.data_[index].status = -1
              THEN hm.buffer_size_
              ELSE find_loop(hm, key, h1, i + 1)

\* the index of the returned iterator
find(hm, key) == find_loop(hm, key, get_hash(hm, key), 0)

\* operator[]: the table and the iterator whose ->second is returned
operator_brackets(hm, key) ==
    LET it == find(hm, key)
    IN IF it = end(hm)
       THEN insert(hm, <<key, DefaultVal>>)
       ELSE [hm |-> hm, it |-> it]

\* Faulty variant of at: a missing key yields the default value, as operator[]
\* would, and nothing is thrown
at_nothrow(hm, key) ==
    LET it == find(hm, key)
    IN IF it = end(hm)
       THEN [err |-> FALSE, val |-> DefaultVal]
       ELSE [err |-> FALSE, val |-> hm.data_[it].keyvalue[2]]

\* at: err is TRUE when std::out_of_range is thrown
at(hm, key) ==
    LET it == find(hm, key)
    IN IF it = end(hm)
       THEN [err |-> TRUE, val |-> Absent]
       ELSE [err |-> FALSE, val |-> hm.data_[it].keyvalue[2]]

\* Faulty variant of clear: the slots are emptied and the counters reset, but
\* the capacity gained by growth is kept
clear_keepcap(hm) ==
    [hm EXCEPT !.cnt_all_ = 0,
               !.cnt_dead_ = 0,
               !.data_ = [i \in DOMAIN hm.data_ |-> EmptyNode]]

\* *this = HashMap(hasher_)
clear(hm) == HashMap(hm.hasher_)

\* Faulty variant of operator=: cnt_dead_ is not copied
copy_assign_nodead(other) ==
    [hasher_      |-> other.hasher_,
     cnt_all_     |-> other.cnt_all_,
     cnt_dead_    |-> 0,
     buffer_size_ |-> other.buffer_size_,
     data_        |-> other.data_]

\* HashMap& operator=(const HashMap& other), the copy constructor's body
copy_assign(other) ==
    [hasher_      |-> other.hasher_,
     cnt_all_     |-> other.cnt_all_,
     cnt_dead_    |-> other.cnt_dead_,
     buffer_size_ |-> other.buffer_size_,
     data_        |-> other.data_]

----------------------------------------------------------------------------
\* iterators

RECURSIVE advance_past_empty(_, _)

\* Faulty variant of advance_past_empty: only empty slots are skipped, so the
\* iterator stops on tombstones
RECURSIVE advance_past_empty_tomb(_, _)
advance_past_empty_tomb(hm, idx) ==
    IF idx < Cardinality(DOMAIN hm.data_) /\ hm.data_[idx].status = -1
    THEN advance_past_empty_tomb(hm, idx + 1)
    ELSE idx

advance_past_empty(hm, idx) ==
    IF idx < Cardinality(DOMAIN hm.data_) /\ hm.data_[idx].status # 1
    THEN advance_past_empty(hm, idx + 1)
    ELSE idx

begin(hm) == advance_past_empty(hm, 0)

\* operator++
increment(hm, idx) == advance_past_empty(hm, idx + 1)

\* HashMap(std::initializer_list<KvType> list), elements from position i on
RECURSIVE from_list(_, _, _)
from_list(hm, list, i) ==
    IF i > Len(list)
    THEN hm
    ELSE from_list(insert(hm, list[i]).hm, list, i + 1)

----------------------------------------------------------------------------
\* Inputs of construction

Pairs == Keys \X Vals

RECURSIVE ListsUpTo(_)
ListsUpTo(n) ==
    IF n = 0
    THEN {<<>>}
    ELSE LET shorter == ListsUpTo(n - 1)
         IN shorter \cup {Append(l, p) : l \in {x \in shorter : Len(x) = n - 1}, p \in Pairs}

\* keys 2, 3, ... each with value 1
Filler == [i \in 1..FillLen |-> <<i + 1, 1>>]

InitLists == ListsUpTo(MaxList) \cup {Filler}

AllKeys == Keys \cup {Filler[i][1] : i \in 1..FillLen}

----------------------------------------------------------------------------
\* Reference map: a function AllKeys -> Vals \cup {Absent}

RefEmpty == [k \in AllKeys |-> Absent]

RefInsert(r, k, v) == IF r[k] = Absent THEN [r EXCEPT ![k] = v] ELSE r

RefPut(r, k, v) == [r EXCEPT ![k] = v]

RefErase(r, k) == [r EXCEPT ![k] = Absent]

RECURSIVE RefFromList(_, _, _)
RefFromList(r, list, i) ==
    IF i > Len(list) THEN r
    ELSE RefFromList(RefInsert(r, list[i][1], list[i][2]), list, i + 1)

----------------------------------------------------------------------------
\* The record of the last operation: its name, its key and value arguments,
\* the iterator it returned (-1 when it returns none), whether it threw, the
\* list it consumed (construct) or printed (dump), and the end() iterator of
\* the table before the call (-1 where it is not recorded)

Op(name, k, v, it, err, list, before) ==
    [op |-> name, key |-> k, val |-> v, it |-> it, err |-> err, list |-> list,
     before |-> before]

\* the value an iterator of hm designates, Absent for end()
\* (tester.cpp:308 prints -1 for end())
Deref(hm, it) == IF it = end(hm) THEN Absent ELSE hm.data_[it].keyvalue[2]

----------------------------------------------------------------------------
\* Specification of one table

\* HashMap<int, int, Hash> map{list} with hash functor h; second is
\* default-constructed
InitWith(h) ==
    \E list \in InitLists :
        /\ map = from_list(HashMap(h), list, 1)
        /\ second = HashMap(h)
        /\ ref = RefFromList(RefEmpty, list, 1)
        /\ last = Op("construct", -1, -1, -1, FALSE, list, -1)

Init == InitWith("std_hash")

\* map.insert(std::make_pair(k, v))
Insert(k, v) ==
    LET r == insert(map, <<k, v>>)
    IN /\ map' = r.hm
       /\ ref' = RefInsert(ref, k, v)
       /\ last' = Op("insert", k, v, r.it, FALSE, <<>>, end(map))
       /\ UNCHANGED second

\* map[k] = v   (tester.cpp:312)
IndexAssign(k, v) ==
    LET r == operator_brackets(map, k)
    IN /\ map' = [r.hm EXCEPT !.data_[r.it].keyvalue[2] = v]
       /\ ref' = RefPut(ref, k, v)
       /\ last' = Op("assign", k, v, r.it, FALSE, <<>>, end(map))
       /\ UNCHANGED second

\* map[k] read as a value   (tester.cpp:143)
IndexRead(k) ==
    LET r == operator_brackets(map, k)
    IN /\ map' = r.hm
       /\ ref' = RefInsert(ref, k, DefaultVal)
       /\ last' = Op("index", k, Deref(r.hm, r.it), r.it, FALSE, <<>>, end(map))
       /\ UNCHANGED second

\* erasing a live key is explored while the table holds fewer than MaxDead
\* tombstones; erasing an absent key always is
Erase(k) ==
    /\ map.cnt_dead_ < MaxDead \/ find(map, k) = end(map)
    /\ map' = erase(map, k)
    /\ ref' = RefErase(ref, k)
    /\ last' = Op("erase", k, -1, -1, FALSE, <<>>, end(map))
    /\ UNCHANGED second

\* it = map.find(k); print it == end ? -1 : it->second   (tester.cpp:307)
Find(k) ==
    LET it == find(map, k)
    IN /\ last' = Op("find", k, Deref(map, it), it, FALSE, <<>>, end(map))
       /\ UNCHANGED <<map, second, ref>>

At(k) ==
    LET r == at(map, k)
    IN /\ last' = Op("at", k, r.val, -1, r.err, <<>>, end(map))
       /\ UNCHANGED <<map, second, ref>>

Clear ==
    /\ map' = clear(map)
    /\ ref' = RefEmpty
    /\ last' = Op("clear", -1, -1, -1, FALSE, <<>>, end(map))
    /\ UNCHANGED second

\* the slots visited by  for (it = from; it != end(); ++it)
RECURSIVE walk(_, _)
walk(hm, it) ==
    IF it = end(hm) THEN <<>>
    ELSE <<it>> \o walk(hm, increment(hm, it))

\* for (it = map.begin(); it != map.end(); ++it) print *it   (tester.cpp:314)
Dump ==
    LET w == walk(map, begin(map))
    IN /\ last' = Op("dump", -1, -1, -1, FALSE,
                     [j \in 1..Len(w) |-> map.data_[w[j]].keyvalue], end(map))
       /\ UNCHANGED <<map, second, ref>>

Next ==
    \/ \E k \in Keys, v \in Vals : Insert(k, v)
    \/ \E k \in Keys, v \in Vals : IndexAssign(k, v)
    \/ \E k \in Keys : IndexRead(k)
    \/ \E k \in Keys : Erase(k)
    \/ \E k \in Keys : Find(k)
    \/ \E k \in Keys : At(k)
    \/ Clear
    \/ Dump

Spec == Init /\ [][Next]_vars

----------------------------------------------------------------------------
\* Specification of a table whose hash functor is stupid_hash and that is
\* only inserted into and read (hash_check, tester.cpp:190-198)

InitStupid == InitWith("stupid_hash")

NextStupid ==
    \/ \E k \in Keys, v \in Vals : Insert(k, v)
    \/ \E k \in Keys, v \in Vals : IndexAssign(k, v)
    \/ \E k \in Keys : IndexRead(k)
    \/ \E k \in Keys : Find(k)

SpecStupid == InitStupid /\ [][NextStupid]_vars

----------------------------------------------------------------------------
\* Specification of two tables, one copied from the other (check_copy,
\* tester.cpp:203-219); ref is not maintained here

\* keys the operations on the two tables are called with
CopyKeys == {31}

\* a list that fills half of the default capacity: one more pair and the
\* next insert grows the table
HalfFiller == [i \in 1..(default_size_ \div 2) |-> <<i + 1, 1>>]

\* HashMap<int, int> map{list};  HashMap<int, int> second;
InitCopy ==
    \E list \in {<<>>, HalfFiller} :
        /\ map = from_list(HashMap("std_hash"), list, 1)
        /\ second = HashMap("std_hash")
        /\ ref = RefEmpty
        /\ last = Op("construct", -1, -1, -1, FALSE, list, -1)

\* HashMap<int, int> second(map);  or  second = map;
CopySecond ==
    /\ second' = copy_assign(map)
    /\ last' = Op("copy_to_second", -1, -1, -1, FALSE, <<>>, -1)
    /\ UNCHANGED <<map, ref>>

\* map = second;
CopyMap ==
    /\ map' = copy_assign(second)
    /\ last' = Op("copy_to_map", -1, -1, -1, FALSE, <<>>, -1)
    /\ UNCHANGED <<second, ref>>

InsertMap(k, v) ==
    LET r == insert(map, <<k, v>>)
    IN /\ map' = r.hm
       /\ last' = Op("insert_map", k, v, r.it, FALSE, <<>>, -1)
       /\ UNCHANGED <<second, ref>>

InsertSecond(k, v) ==
    LET r == insert(second, <<k, v>>)
    IN /\ second' = r.hm
       /\ last' = Op("insert_second", k, v, r.it, FALSE, <<>>, -1)
       /\ UNCHANGED <<map, ref>>

\* map[k] = v
AssignMap(k, v) ==
    LET r == operator_brackets(map, k)
    IN /\ map' = [r.hm EXCEPT !.data_[r.it].keyvalue[2] = v]
       /\ last' = Op("assign_map", k, v, r.it, FALSE, <<>>, -1)
       /\ UNCHANGED <<second, ref>>

\* second[k] = v
AssignSecond(k, v) ==
    LET r == operator_brackets(second, k)
    IN /\ second' = [r.hm EXCEPT !.data_[r.it].keyvalue[2] = v]
       /\ last' = Op("assign_second", k, v, r.it, FALSE, <<>>, -1)
       /\ UNCHANGED <<map, ref>>

EraseMap(k) ==
    /\ map.cnt_dead_ < MaxDead \/ find(map, k) = end(map)
    /\ map' = erase(map, k)
    /\ last' = Op("erase_map", k, -1, -1, FALSE, <<>>, -1)
    /\ UNCHANGED <<second, ref>>

EraseSecond(k) ==
    /\ second.cnt_dead_ < MaxDead \/ find(second, k) = end(second)
    /\ second' = erase(second, k)
    /\ last' = Op("erase_second", k, -1, -1, FALSE, <<>>, -1)
    /\ UNCHANGED <<map, ref>>

ClearMap ==
    /\ map' = clear(map)
    /\ last' = Op("clear_map", -1, -1, -1, FALSE, <<>>, -1)
    /\ UNCHANGED <<second, ref>>

ClearSecond ==
    /\ second' = clear(second)
    /\ last' = Op("clear_second", -1, -1, -1, FALSE, <<>>, -1)
    /\ UNCHANGED <<map, ref>>

NextCopy ==
    \/ CopySecond
    \/ CopyMap
    \/ \E k \in CopyKeys, v \in Vals : InsertMap(k, v)
    \/ \E k \in CopyKeys, v \in Vals : InsertSecond(k, v)
    \/ \E k \in CopyKeys, v \in Vals : AssignMap(k, v)
    \/ \E k \in CopyKeys, v \in Vals : AssignSecond(k, v)
    \/ \E k \in CopyKeys : EraseMap(k)
    \/ \E k \in CopyKeys : EraseSecond(k)
    \/ ClearMap
    \/ ClearSecond

SpecCopy == InitCopy /\ [][NextCopy]_vars

----------------------------------------------------------------------------
\* Vocabulary of the properties, read off the slot array alone

Slots(hm) == DOMAIN hm.data_

Occupied(hm) == {i \in Slots(hm) : hm.data_[i].status = 1}

Tombstones(hm) == {i \in Slots(hm) : hm.data_[i].status = 0}

KeyAt(hm, i) == hm.data_[i].keyvalue[1]

ValAt(hm, i) == hm.data_[i].keyvalue[2]

\* k is live: some occupied slot holds it
Live(hm, k) == \E i \in Occupied(hm) : KeyAt(hm, i) = k

\* the values stored for k in occupied slots
StoredVals(hm, k) == {ValAt(hm, i) : i \in {j \in Occupied(hm) : KeyAt(hm, j) = k}}

RefKeys == {k \in AllKeys : ref[k] # Absent}

\* what find(k) yields: the value of the designated pair, Absent for end()
FindVal(hm, k) == Deref(hm, find(hm, k))

----------------------------------------------------------------------------
\* C1: after any sequence of insert, operator[] assignment, erase and clear
\* the table agrees with the reference map driven by the same sequence: for
\* every key, find yields the reference value when the key is in the
\* reference map and end() when it is not, and size() is the number of keys
\* of the reference map.
C1_AgreesWithReference ==
    /\ \A k \in AllKeys :
          /\ (ref[k] = Absent) <=> (find(map, k) = end(map))
          /\ ref[k] # Absent =>
                /\ find(map, k) \in Occupied(map)
                /\ KeyAt(map, find(map, k)) = k
                /\ ValAt(map, find(map, k)) = ref[k]
    /\ size(map) = Cardinality(RefKeys)

\* a key was erased and then inserted again with another value
C1_Witness ==
    /\ last.op \in {"insert", "assign"}
    /\ \E t \in Tombstones(map), i \in Occupied(map) :
          /\ KeyAt(map, t) = last.key
          /\ KeyAt(map, i) = last.key
          /\ ValAt(map, t) # ValAt(map, i)
    /\ FindVal(map, last.key) = last.val

\* C2: in every reachable state no key is held by more than one occupied
\* slot, and size() equals the number of occupied slots, which is the number
\* of distinct keys inserted and not erased since.
C2_UniqueKeys ==
    /\ \A i, j \in Occupied(map) : KeyAt(map, i) = KeyAt(map, j) => i = j
    /\ size(map) = Cardinality(Occupied(map))
    /\ {KeyAt(map, i) : i \in Occupied(map)} = RefKeys

\* the table has grown and an insertion there displaced a pair past a tombstone
C2_Witness ==
    /\ map.buffer_size_ = 2 * default_size_
    /\ map.cnt_dead_ > 0
    /\ \E i \in Occupied(map) : map.data_[i].dist_to_ideal > 0
    /\ size(map) > FillLen

\* the value of the first pair of list whose key is k, Absent when none is
FirstVal(list, k) ==
    LET at_k == {i \in 1..Len(list) : list[i][1] = k}
    IN IF at_k = {} THEN Absent
       ELSE list[CHOOSE i \in at_k : \A j \in at_k : i <= j][2]

ListKeys(list) == {list[i][1] : i \in 1..Len(list)}

\* C3: insert is first-wins: insert((k, v2)) on a key that is live with
\* value v1 leaves find(k) yielding v1 and size() unchanged; and a table
\* built from a list of pairs keeps, for each key, the value of its first
\* occurrence and has as many entries as the list has distinct keys.
C3_FirstWins ==
    /\ [][\A k \in Keys, v \in Vals :
            (Insert(k, v) /\ Live(map, k)) =>
                /\ FindVal(map', k) = FindVal(map, k)
                /\ StoredVals(map', k) = StoredVals(map, k)
                /\ size(map') = size(map)]_vars
    /\ [](last.op = "construct" =>
            /\ \A k \in AllKeys : FindVal(map, k) = FirstVal(last.list, k)
            /\ size(map) = Cardinality(ListKeys(last.list)))

\* insert was called with a value other than the one the key keeps
C3_Witness ==
    /\ last.op = "insert"
    /\ last.val # FindVal(map, last.key)
    /\ FindVal(map, last.key) # Absent
    /\ last.it = find(map, last.key)

\* a table was built from a list that names a key twice, with two values
C3_WitnessList ==
    /\ last.op = "construct"
    /\ \E i, j \in 1..Len(last.list) :
          /\ i < j
          /\ last.list[i][1] = last.list[j][1]
          /\ last.list[i][2] # last.list[j][2]

\* C4: erase(k) on a live key makes find(k) return end() and size() one
\* less; erase of a key that is not live (a second erase(k) included)
\* leaves the slot array, the capacity and both counters unchanged.
C4_Erase ==
    [][\A k \in Keys :
         Erase(k) =>
            IF Live(map, k)
            THEN /\ find(map', k) = end(map')
                 /\ ~Live(map', k)
                 /\ size(map') = size(map) - 1
            ELSE map' = map]_vars

\* erase(k) ran on a table where k had been erased before and not inserted
\* again: a second erase(k)
C4_Witness ==
    /\ last.op = "erase"
    /\ find(map, last.key) = end(map)
    /\ \E t \in Tombstones(map) : KeyAt(map, t) = last.key
    /\ size(map) > 0

\* the wrapping distance from slot i to slot j
Steps(hm, i, j) == (j - i + hm.buffer_size_) % hm.buffer_size_

\* C5: erase(k) on a live key changes only the status of the one slot that
\* holds k, from occupied to tombstone, and adds one to dead_count; the
\* capacity, live_count and every other slot stay as they are, and find of
\* every other key returns what it returned before.
C5_EraseFrame ==
    [][\A k \in Keys :
         (Erase(k) /\ Live(map, k)) =>
            /\ map'.buffer_size_ = map.buffer_size_
            /\ map'.cnt_all_ = map.cnt_all_
            /\ map'.cnt_dead_ = map.cnt_dead_ + 1
            /\ map'.hasher_ = map.hasher_
            /\ Slots(map') = Slots(map)
            /\ \E i \in Occupied(map) :
                  /\ KeyAt(map, i) = k
                  /\ map'.data_ = [map.data_ EXCEPT ![i].status = 0]
            /\ \A other \in AllKeys \ {k} : find(map', other) = find(map, other)]_vars

\* the erased key's tombstone lies on the probe path of a live key, before it
C5_Witness ==
    /\ last.op = "erase"
    /\ \E t \in Tombstones(map), j \in Occupied(map) :
          /\ KeyAt(map, t) = last.key
          /\ Steps(map, get_hash(map, KeyAt(map, j)), t)
                < Steps(map, get_hash(map, KeyAt(map, j)), j)
          /\ find(map, KeyAt(map, j)) = j

\* C6: at(k) throws out_of_range exactly when k is not live and otherwise
\* returns the value stored for k; the table is the same after the call.
C6_At ==
    /\ [](last.op = "at" =>
            /\ last.err <=> ~Live(map, last.key)
            /\ ~last.err => StoredVals(map, last.key) = {last.val})
    /\ [][\A k \in Keys : At(k) => map' = map]_vars

\* at threw for a key that had been live and was erased
C6_Witness ==
    /\ last.op = "at"
    /\ last.err
    /\ \E t \in Tombstones(map) : KeyAt(map, t) = last.key
    /\ size(map) > 0

\* at returned the value of a live key
C6_WitnessFound ==
    /\ last.op = "at"
    /\ ~last.err
    /\ last.val = 1

\* C7: operator[](k) on a key that is not live inserts k with the default
\* value, making size() one more, and refers to the new entry; on a live key
\* it refers to the existing entry and changes nothing; after an assignment
\* through the reference, find(k) and operator[](k) yield the assigned value.
C7_Index ==
    [][\A k \in Keys :
         /\ IndexRead(k) =>
               /\ last'.it \in Occupied(map')
               /\ KeyAt(map', last'.it) = k
               /\ IF Live(map, k)
                  THEN /\ map' = map
                       /\ last'.val = FindVal(map, k)
                  ELSE /\ size(map') = size(map) + 1
                       /\ ValAt(map', last'.it) = DefaultVal
                       /\ last'.val = DefaultVal
                       /\ StoredVals(map', k) = {DefaultVal}
         /\ \A v \in Vals :
               IndexAssign(k, v) =>
                  /\ last'.it \in Occupied(map')
                  /\ KeyAt(map', last'.it) = k
                  /\ size(map') = size(map) + (IF Live(map, k) THEN 0 ELSE 1)
                  /\ FindVal(map', k) = v
                  /\ StoredVals(map', k) = {v}
                  /\ operator_brackets(map', k).hm = map'
                  /\ Deref(map', operator_brackets(map', k).it) = v
                  /\ \A other \in AllKeys \ {k} :
                        FindVal(map', other) = FindVal(map, other)]_vars

\* operator[] created the key, and the new pair took a slot from a richer
\* pair, which moved on
C7_Witness ==
    /\ last.op \in {"index", "assign"}
    /\ last.it \in Occupied(map)
    /\ KeyAt(map, last.it) = last.key
    /\ \E j \in Occupied(map) :
          /\ j # last.it
          /\ map.data_[j].dist_to_ideal > 0
          /\ Steps(map, last.it, j) <= map.data_[j].dist_to_ideal
    /\ map.data_[last.it].dist_to_ideal > 0
    /\ map.cnt_dead_ = 0

\* C8: with a hash functor that returns the same constant for every key,
\* inserting N distinct keys, across growth, yields size() = N and find(k)
\* returns the value inserted for k, for each of the N keys.
C8_ConstantHash ==
    /\ \A k \in AllKeys : get_hash(map, k) = get_hash(map, 0)
    /\ size(map) = Cardinality(RefKeys)
    /\ \A k \in RefKeys :
          /\ find(map, k) # end(map)
          /\ KeyAt(map, find(map, k)) = k
          /\ FindVal(map, k) = ref[k]
    /\ \A k \in AllKeys \ RefKeys : find(map, k) = end(map)
    /\ Occupied(map) = 0..(size(map) - 1)

\* every key of the inputs is in the table and the table has grown
C8_Witness ==
    /\ map.hasher_ = "stupid_hash"
    /\ map.buffer_size_ = 2 * default_size_
    /\ size(map) = FillLen + Cardinality(Keys)
    /\ \E i \in Occupied(map) : map.data_[i].dist_to_ideal = size(map) - 1

\* C9: walking from begin() with ++ until end() visits every occupied slot
\* once, in increasing slot index, never stops on an empty or tombstone
\* slot and reaches end() after size() steps; begin() = end() exactly when
\* size() = 0.
C9_Iteration ==
    LET w == walk(map, begin(map))
    IN /\ Len(w) = size(map)
       /\ \A j \in 1..Len(w) : w[j] \in Occupied(map)
       /\ \A j \in 1..(Len(w) - 1) : w[j] < w[j + 1]
       /\ {w[j] : j \in 1..Len(w)} = Occupied(map)
       /\ (begin(map) = end(map)) <=> (size(map) = 0)
       /\ last.op = "dump" =>
             last.list = [j \in 1..Len(w) |-> map.data_[w[j]].keyvalue]

\* a dump walked past a tombstone that precedes the first occupied slot
C9_Witness ==
    /\ last.op = "dump"
    /\ Len(last.list) >= 2
    /\ \E t \in Tombstones(map) : t < begin(map)
    /\ \E e \in Slots(map) \ (Occupied(map) \cup Tombstones(map)), i \in Occupied(map) : e < i

\* a dump of a table whose only entry was erased prints nothing
C9_WitnessErased ==
    /\ last.op = "dump"
    /\ last.list = <<>>
    /\ map.cnt_dead_ > 0
    /\ begin(map) = end(map)

SecondOps == {"insert_second", "assign_second", "erase_second", "clear_second"}

MapOps == {"insert_map", "assign_map", "erase_map", "clear_map"}

\* C10: after copy construction or copy assignment B = A, B has the same
\* key->value mapping, size and capacity as A (here: the same slots and
\* counters), and insert, operator[] assignment, erase and clear applied to
\* one of the two tables leave the other's slots, counters and capacity as
\* they are.
C10_CopyIndependence ==
    /\ [](last.op \in {"copy_to_second", "copy_to_map"} =>
            /\ second.data_ = map.data_
            /\ second.buffer_size_ = map.buffer_size_
            /\ size(second) = size(map)
            /\ second.cnt_all_ = map.cnt_all_
            /\ \A k \in CopyKeys \cup ListKeys(HalfFiller) :
                  FindVal(second, k) = FindVal(map, k))
    /\ [][/\ last'.op \in SecondOps \cup {"copy_to_second"} => map' = map
          /\ last'.op \in MapOps \cup {"copy_to_map"} => second' = second]_vars

\* second was copied from map when map held a tombstone and stood at the
\* growth threshold; an insert into second then grew second alone
C10_Witness ==
    /\ last.op = "insert_second"
    /\ second.buffer_size_ = 2 * default_size_
    /\ map.buffer_size_ = default_size_
    /\ map.cnt_dead_ > 0
    /\ size(second) = size(map) + 1
    /\ size(map) = Len(HalfFiller)

\* C11: after clear(), from any reachable state, the table is in the state
\* of a freshly constructed table: the capacity is the default initial
\* capacity, live_count and dead_count are zero and every slot is empty, so
\* whatever follows behaves as on a fresh table.
C11_ClearIsFresh ==
    last.op = "clear" =>
        /\ map.buffer_size_ = default_size_
        /\ Slots(map) = 0..(default_size_ - 1)
        /\ map.cnt_all_ = 0
        /\ map.cnt_dead_ = 0
        /\ \A i \in Slots(map) : map.data_[i] = EmptyNode
        /\ map = HashMap(map.hasher_)

\* clear() ran on a table that had grown
C11_Witness ==
    /\ last.op = "clear"
    /\ last.before = 2 * default_size_
    /\ end(map) = default_size_

\* C12 (as stated): insert of a pair whose key is already live is a no-op
\* in every reachable state: the slot array, the capacity, live_count and
\* dead_count are the same after the call as before it, and the returned
\* iterator designates the slot that already held the key.
C12_DuplicateNoOp ==
    [][\A k \in Keys, v \in Vals :
         (Insert(k, v) /\ Live(map, k)) =>
            /\ map' = map
            /\ last'.it = find(map, k)]_vars

\* C12 (amended): insert of a pair whose key is already live leaves size()
\* and the value found for every key as they were and returns an iterator to
\* the occupied slot that holds the key.  When live_count <= capacity * 0.5
\* at the call the table is left exactly as it was; when live_count >
\* capacity * 0.5 the growth step at the start of insert runs first, so the
\* capacity doubles, the tombstones go, dead_count becomes 0 and live_count
\* becomes the number of occupied slots.
C12_DuplicateInsert ==
    [][\A k \in Keys, v \in Vals :
         (Insert(k, v) /\ Live(map, k)) =>
            /\ size(map') = size(map)
            /\ \A other \in AllKeys : FindVal(map', other) = FindVal(map, other)
            /\ last'.it = find(map', k)
            /\ last'.it \in Occupied(map')
            /\ KeyAt(map', last'.it) = k
            /\ IF map.buffer_size_ >= 2 * map.cnt_all_
                  THEN /\ map' = map
                       /\ last'.it = find(map, k)
                  ELSE /\ map'.buffer_size_ = 2 * map.buffer_size_
                       /\ Tombstones(map') = {}
                       /\ map'.cnt_dead_ = 0
                       /\ map'.cnt_all_ = size(map)
                       /\ map'.cnt_all_ = Cardinality(Occupied(map'))]_vars

\* a duplicate insert that grew the table: the key keeps its earlier value
C12_Witness ==
    /\ last.op = "insert"
    /\ FindVal(map, last.key) \notin {last.val, Absent}
    /\ last.before = default_size_
    /\ end(map) = 2 * default_size_

\* C13: in every reachable state each occupied slot i holding key k has
\* dist_to_ideal = (i - hash(k) mod capacity) mod capacity, whether the pair
\* was placed directly, swapped in by a displacement, carried onward after
\* being displaced, or inserted again by growth.
C13_DistToIdeal ==
    \A i \in Occupied(map) :
        map.data_[i].dist_to_ideal = Steps(map, get_hash(map, KeyAt(map, i)), i)

\* an insert swapped its pair into a slot away from the key's ideal slot and
\* carried the displaced pair one slot further, across the end of the array
C13_Witness ==
    /\ last.op = "insert"
    /\ last.it \in Occupied(map)
    /\ KeyAt(map, last.it) = last.key
    /\ map.data_[last.it].dist_to_ideal = 1
    /\ get_hash(map, last.key) = map.buffer_size_ - 1
    /\ \E j \in Occupied(map) :
          /\ Steps(map, last.it, j) = 1
          /\ map.data_[j].dist_to_ideal = 1
    /\ \E j \in Occupied(map) : map.data_[j].dist_to_ideal = 0

\* growth placed every pair again: a pair that sat one slot from its ideal
\* slot in the old array sits on its ideal slot in the new one
C13_WitnessGrowth ==
    /\ last.op \in {"insert", "assign", "index"}
    /\ last.before = default_size_
    /\ end(map) = 2 * default_size_
    /\ 31 \in Occupied(map)
    /\ KeyAt(map, 31) = 31
    /\ \A i \in Occupied(map) : map.data_[i].dist_to_ideal = 0

\* C14: in every reachable state, for each occupied slot i holding key k with
\* ideal index h = hash(k) mod capacity, none of the slots h, h+1, ...
\* (wrapping) up to i is empty, so the scan of find from h reaches k before
\* it can stop on an empty slot.
C14_NoEmptyOnChain ==
    \A i \in Occupied(map) :
        LET h == get_hash(map, KeyAt(map, i))
        IN /\ \A d \in 0..Steps(map, h, i) :
                 map.data_[(h + d) % map.buffer_size_].status # -1
           /\ find(map, KeyAt(map, i)) = i

\* find returned a key whose chain from the ideal index runs over a tombstone
C14_Witness ==
    /\ last.op = "find"
    /\ last.it \in Occupied(map)
    /\ KeyAt(map, last.it) = last.key
    /\ \E t \in Tombstones(map) :
          Steps(map, get_hash(map, last.key), t)
             < Steps(map, get_hash(map, last.key), last.it)

\* C15: Robin Hood ordering, in every reachable state, tombstones included:
\* for an occupied slot j holding key k and an occupied slot i on the probe
\* path of k before j, the pair in i is not richer than k was when probing i:
\* dist_to_ideal[i] >= dist_to_ideal[j] - steps(i, j).  Hence the scan of an
\* insert of a live key reaches the slot of the key before any swap is made.
C15_RobinHood ==
    /\ \A j \in Occupied(map) :
          LET h == get_hash(map, KeyAt(map, j))
          IN \A i \in Occupied(map) :
                Steps(map, h, i) < Steps(map, h, j) =>
                   map.data_[i].dist_to_ideal
                      >= map.data_[j].dist_to_ideal - Steps(map, i, j)
    /\ \A j \in Occupied(map), v \in Vals :
          insert_loop(map, KeyAt(map, j), get_hash(map, KeyAt(map, j)), 0,
                      <<KeyAt(map, j), v>>, 0, -1) = [hm |-> map, it |-> j]

\* an insert of a live key left the table as it was, in a table where the
\* path of a poor pair runs over a tombstone and over another poor pair
C15_Witness ==
    /\ last.op = "insert"
    /\ FindVal(map, last.key) \notin {last.val, Absent}
    /\ last.before = end(map)
    /\ \E i \in Occupied(map), j \in Occupied(map), t \in Tombstones(map) :
          LET h == get_hash(map, KeyAt(map, j))
          IN /\ i # j
             /\ Steps(map, h, i) < Steps(map, h, j)
             /\ Steps(map, h, t) < Steps(map, h, j)
             /\ map.data_[i].dist_to_ideal > 0
             /\ map.data_[j].dist_to_ideal > 1

\* the key-value pairs held in occupied slots
LivePairs(hm) == {hm.data_[i].keyvalue : i \in Occupied(hm)}

\* C16: growth policy.  At the start of every insert call the capacity
\* doubles, once, exactly when live_count > capacity * 0.5, and is unchanged
\* otherwise; right after a growth the new slot array has no tombstone,
\* dead_count is 0, live_count is the number of occupied slots, and the live
\* key-value pairs are exactly those that were live before the growth.
C16_GrowthPolicy ==
    LET g == resize(map)
    IN /\ IF 2 * map.cnt_all_ > map.buffer_size_
             THEN /\ g.buffer_size_ = 2 * map.buffer_size_
                  /\ Slots(g) = 0..(g.buffer_size_ - 1)
                  /\ Tombstones(g) = {}
                  /\ g.cnt_dead_ = 0
                  /\ g.cnt_all_ = Cardinality(Occupied(g))
                  /\ g.cnt_all_ = size(map)
                  /\ LivePairs(g) = LivePairs(map)
             ELSE g = map
       /\ \A k \in AllKeys, v \in Vals :
             insert(map, <<k, v>>).hm.buffer_size_ = g.buffer_size_
       /\ (last.op \in {"insert", "assign", "index"} /\ last.before # end(map)) =>
             /\ end(map) = 2 * last.before
             /\ Tombstones(map) = {}
             /\ map.cnt_dead_ = 0
             /\ map.cnt_all_ = Cardinality(Occupied(map))

\* an insert grew the table from the default capacity, and the growth dropped
\* a tombstone: fewer slots are in use after the call than the growth
\* threshold requires before it
C16_Witness ==
    /\ last.op = "insert"
    /\ last.before = default_size_
    /\ end(map) = 2 * default_size_
    /\ 2 * map.cnt_all_ <= default_size_

\* growth is due at the next insert and there is a tombstone to drop
C16_WitnessDue ==
    /\ 2 * map.cnt_all_ > map.buffer_size_
    /\ map.cnt_dead_ > 0

\* C17: counter invariant, in every reachable state: live_count is the
\* number of non-empty slots (occupied plus tombstone), dead_count is the
\* number of tombstones, dead_count <= live_count, and live_count <=
\* capacity / 2 + 1, so the slot array always has an empty slot.
C17_Counters ==
    /\ map.cnt_all_ = Cardinality(Occupied(map) \cup Tombstones(map))
    /\ map.cnt_dead_ = Cardinality(Tombstones(map))
    /\ map.cnt_dead_ <= map.cnt_all_
    /\ 2 * map.cnt_all_ <= map.buffer_size_ + 2
    /\ map.cnt_all_ <= (map.buffer_size_ \div 2) + 1
    /\ \E i \in Slots(map) : map.data_[i].status = -1
    /\ Cardinality(Slots(map)) = map.buffer_size_

\* the table is as full as it can get, with a tombstone among the slots in use
C17_Witness ==
    /\ map.cnt_all_ = (map.buffer_size_ \div 2) + 1
    /\ map.cnt_dead_ > 0
    /\ Cardinality(Occupied(map)) = map.cnt_all_ - map.cnt_dead_
    /\ last.op \in {"insert", "assign", "index"}

\* C18: in every reachable state insert((k, v)) does not return end(): the
\* scan ends on a slot holding k or on an empty slot within capacity steps,
\* and the returned iterator designates an occupied slot whose key is k, also
\* when the new pair displaced richer pairs (the iterator is then the first
\* slot swapped into, not the empty slot where the last displaced pair
\* landed); so operator[] never dereferences end().
C18_InsertIterator ==
    /\ \A k \in AllKeys, v \in Vals :
          LET r == insert(map, <<k, v>>)
          IN /\ r.it # end(r.hm)
             /\ r.it \in Occupied(r.hm)
             /\ KeyAt(r.hm, r.it) = k
             /\ r.it = find(r.hm, k)
    /\ \A k \in AllKeys :
          LET r == operator_brackets(map, k)
          IN /\ r.it # end(r.hm)
             /\ r.it \in Occupied(r.hm)
             /\ KeyAt(r.hm, r.it) = k
    /\ last.op \in {"insert", "assign", "index"} =>
          /\ last.it # end(map)
          /\ last.it \in Occupied(map)
          /\ KeyAt(map, last.it) = last.key

\* an insert passed a tombstone on the ideal slot of its key and took the next
\* slot from a richer pair, which moved on to the empty slot behind it; the
\* returned iterator is the slot of the new pair
C18_Witness ==
    /\ last.op = "insert"
    /\ last.before = end(map)
    /\ last.it \in Occupied(map)
    /\ KeyAt(map, last.it) = last.key
    /\ ValAt(map, last.it) = last.val
    /\ get_hash(map, last.key) \in Tombstones(map)
    /\ map.data_[last.it].dist_to_ideal = 1
    /\ LET j == (last.it + 1) % map.buffer_size_
       IN /\ j \in Occupied(map)
          /\ map.data_[j].dist_to_ideal = 1
          /\ get_hash(map, KeyAt(map, j)) = last.it

\* C19: between two growth or clear events a slot that has become a
\* tombstone stays a tombstone: no insert (inserting the erased key again
\* and displacement swaps included) writes into a tombstone slot or changes
\* it, and no slot goes from occupied or tombstone back to empty; tombstones
\* go away only through growth or clear.
C19_TombstonesStay ==
    [][(map'.buffer_size_ = map.buffer_size_ /\ last'.op # "clear") =>
          /\ Slots(map') = Slots(map)
          /\ \A i \in Slots(map) :
                /\ map.data_[i].status = 0 => map'.data_[i] = map.data_[i]
                /\ map.data_[i].status # -1 => map'.data_[i].status # -1
          /\ Tombstones(map) \subseteq Tombstones(map')]_vars

\* the erased key was inserted again without growth: its tombstone is still
\* there and the key lives in another slot
C19_Witness ==
    /\ last.op = "insert"
    /\ last.before = end(map)
    /\ last.it \in Occupied(map)
    /\ KeyAt(map, last.it) = last.key
    /\ ValAt(map, last.it) = last.val
    /\ \E t \in Tombstones(map) :
          /\ KeyAt(map, t) = last.key
          /\ Steps(map, get_hash(map, last.key), t)
                < Steps(map, get_hash(map, last.key), last.it)

-----------------------------------------------------------------------------
\* Specification of a table driven through insert/erase cycles on a few keys
\* (the '+' and '-' lines of the stream exerciser, tester.cpp:303-312), with
\* up to CycleDead tombstones in the slot array at a time

CycleDead == 9

CycleKeys == {0, 15}

CycleVals == {1}

InitCycle ==
    /\ map = HashMap("std_hash")
    /\ second = HashMap("std_hash")
    /\ ref = RefEmpty
    /\ last = Op("construct", -1, -1, -1, FALSE, <<>>, -1)

\* map.erase(k), explored while the table holds fewer than CycleDead
\* tombstones
EraseCycle(k) ==
    /\ map.cnt_dead_ < CycleDead
    /\ map' = erase(map, k)
    /\ ref' = RefErase(ref, k)
    /\ last' = Op("erase", k, -1, -1, FALSE, <<>>, end(map))
    /\ UNCHANGED second

NextCycle ==
    \/ \E k \in CycleKeys, v \in CycleVals : Insert(k, v)
    \/ \E k \in CycleKeys, v \in CycleVals : IndexAssign(k, v)
    \/ \E k \in CycleKeys : EraseCycle(k)
    \/ \E k \in CycleKeys : Find(k)
    \/ \E k \in CycleKeys : At(k)
    \/ Clear

SpecCycle == InitCycle /\ [][NextCycle]_vars

\* C20: across any sequence of insert, operator[], erase, find and at the
\* capacity never decreases: each step leaves it as it was or doubles it,
\* starting from 16; only clear lowers it, and then to exactly 16.  erase
\* never lowers live_count, so repeated insert/erase cycles keep driving
\* growth while size() stays small.
C20_CapacityMonotone ==
    /\ [](\E n \in 0..4 : map.buffer_size_ = default_size_ * (2 ^ n))
    /\ [][IF last'.op = "clear"
             THEN map'.buffer_size_ = default_size_
             ELSE map'.buffer_size_ \in {map.buffer_size_, 2 * map.buffer_size_}]_vars
    /\ [][\A k \in CycleKeys :
             EraseCycle(k) => /\ map'.cnt_all_ = map.cnt_all_
                              /\ map'.buffer_size_ = map.buffer_size_]_vars
    /\ [][map'.buffer_size_ # map.buffer_size_ =>
             \/ last'.op = "clear"
             \/ /\ last'.op \in {"insert", "assign"}
                /\ 2 * map.cnt_all_ > map.buffer_size_]_vars

\* cycles of insert and erase on the same keys grew the table although it
\* never held more than two keys: an insert has just doubled the capacity of
\* a table that holds one key
C20_Witness ==
    /\ last.op = "insert"
    /\ last.before = default_size_
    /\ end(map) = 2 * default_size_
    /\ size(map) = 1

-----------------------------------------------------------------------------
\* The number of loop iterations the scans execute, and the tables the
\* re-insertion loop of resize passes through

RECURSIVE find_steps(_, _, _, _), erase_steps(_, _, _, _),
          insert_steps(_, _, _, _, _, _, _)

\* iterations of find's for loop from iteration i on, i included
find_steps(hm, key, h1, i) ==
    IF ~(i < hm.buffer_size_)
    THEN i
    ELSE
      LET index == (h1 + i) % hm.buffer_size_
      IN IF hm.data_[index].status = 1 /\ hm.data_[index].keyvalue[1] = key
         THEN i + 1
         ELSE IF hm.data_[index].status = -1
              THEN i + 1
              ELSE find_steps(hm, key, h1, i + 1)

\* iterations of erase's for loop
erase_steps(hm, key, h1, i) ==
    IF ~(i < hm.buffer_size_)
    THEN i
    ELSE
      LET index == (h1 + i) % hm.buffer_size_
          hit   == hm.data_[index].status = 1 /\ hm.data_[index].keyvalue[1] = key
          hm1   == IF hit
                   THEN [hm EXCEPT !.data_[index].status = 0,
                                   !.cnt_dead_ = @ + 1]
                   ELSE hm
      IN IF hm1.data_[index].status = -1
         THEN i + 1
         ELSE erase_steps(hm1, key, h1, i + 1)

\* iterations of insert's for loop
insert_steps(hm, key, h1, i, keyvalue, cur_dist_to_ideal, insert_index) ==
    IF ~(i < hm.buffer_size_)
    THEN i
    ELSE
      LET index == (h1 + i) % hm.buffer_size_
          n     == hm.data_[index]
      IN
      IF n.status = 1 /\ n.keyvalue[1] = key
      THEN i + 1
      ELSE
        LET swap == n.status = 1 /\ n.dist_to_ideal < cur_dist_to_ideal
            hm1  == IF swap
                    THEN [hm EXCEPT !.data_[index] =
                            [n EXCEPT !.keyvalue = keyvalue,
                                      !.dist_to_ideal = cur_dist_to_ideal]]
                    ELSE hm
            kv1  == IF swap THEN n.keyvalue ELSE keyvalue
            cur1 == IF swap THEN n.dist_to_ideal ELSE cur_dist_to_ideal
            ii1  == IF swap /\ insert_index = -1 THEN index ELSE insert_index
        IN
        IF hm1.data_[index].status = -1
        THEN i + 1
        ELSE insert_steps(hm1, key, h1, i + 1, kv1, cur1 + 1, ii1)

\* the table resize's loop starts to fill: what resize makes of hm when no
\* pair is there to be inserted again
GrowthStart(hm) ==
    resize([hm EXCEPT !.data_ = [j \in DOMAIN hm.data_ |-> EmptyNode]])

\* the table at the moment resize's loop reaches index i of the old array
GrowthBefore(hm, i) ==
    resize_loop(GrowthStart(hm), [j \in 0..(i - 1) |-> hm.data_[j]], 0)

\* C21: every operation terminates from every reachable state: the scans of
\* find, erase and insert take at most capacity steps, and the insertions
\* made again during a growth never trigger a growth themselves (the nested
\* growth test is false each time), so one insert call doubles the capacity
\* at most once and the insert/resize recursion is at most one level deep.
C21_Terminates ==
    /\ \A k \in AllKeys :
          /\ find_steps(map, k, get_hash(map, k), 0) \in 1..map.buffer_size_
          /\ erase_steps(map, k, get_hash(map, k), 0) \in 1..map.buffer_size_
    /\ \A k \in AllKeys, v \in Vals :
          LET g == resize(map)
          IN /\ insert_steps(g, k, get_hash(g, k), 0, <<k, v>>, 0, -1)
                   \in 1..g.buffer_size_
             /\ insert(map, <<k, v>>).hm.buffer_size_
                   \in {map.buffer_size_, 2 * map.buffer_size_}
    /\ map.buffer_size_ < 2 * map.cnt_all_ =>
          /\ GrowthBefore(map, map.buffer_size_) = resize(map)
          /\ \A i \in Occupied(map) :
                LET t == GrowthBefore(map, i)
                IN /\ t.buffer_size_ = 2 * map.buffer_size_
                   /\ ~(t.buffer_size_ < 2 * t.cnt_all_)
                   /\ resize(t) = t
                   /\ insert_steps(t, KeyAt(map, i), get_hash(t, KeyAt(map, i)), 0,
                                   map.data_[i].keyvalue, 0, -1) \in 1..t.buffer_size_

\* growth is due at the next insert with the most pairs to insert again, and
\* the find just made scanned over more than one slot, across the end of the
\* array
C21_Witness ==
    /\ map.buffer_size_ < 2 * map.cnt_all_
    /\ map.cnt_dead_ = 0
    /\ last.op = "find"
    /\ last.it \in Occupied(map)
    /\ last.it < get_hash(map, last.key)
    /\ find_steps(map, last.key, get_hash(map, last.key), 0) >= 2

\* an insert has grown the table and nine pairs were inserted again
C21_WitnessGrown ==
    /\ last.op \in {"insert", "assign", "index"}
    /\ last.before = default_size_
    /\ end(map) = 2 * default_size_
    /\ Cardinality(Occupied(map)) >= default_size_ \div 2 + 1

====
